---- MODULE Spec2Model ----
(***************************************************************************)
(* A model of the LiveMode component (src/components/LiveMode.tsx): the    *)
(* connection state machine, the device references and the resources       *)
(* behind them, the realtime session callbacks and the playback queue;     *)
(* and of the send path of ChatMode (src/components/ChatMode.tsx).         *)
(***************************************************************************)
EXTENDS Integers, FiniteSets, Sequences, TLC

\* ------------------------------------------------------------------ bounds
\* Explorations of the same handlers: Spec follows the connection life cycle
\* over several connect attempts with little audio, SpecPlay follows the playback
\* queue of one attempt with more audio and a longer clock, SpecFair follows one
\* chunk to its end under a fair output device.  SpecChat is the text chat.
MaxAttempts  == 2     \* connectToLive invocations in one behaviour (Spec)
LifeMsgs     == 1     \* inbound audio messages, over all sessions (Spec)
LifeClock    == 1     \* ticks of one output context's currentTime (Spec)
PlayAttempts == 1     \* connectToLive invocations (SpecPlay)
MaxMsgs      == 2     \* inbound audio messages (SpecPlay)
MaxClock     == 3     \* ticks of the output context's currentTime (SpecPlay)
MaxDur       == 2     \* longest decoded buffer, in ticks
LifeFrames   == 1     \* captured frames sent to one session (Spec)
FairMsgs     == 1     \* inbound audio messages (SpecFair)
FairClock    == 1     \* ticks of the idle output clock (SpecFair)
MaxSends     == 2     \* handleSend invocations (SpecChat)
MaxChunks    == 2     \* streamed updates of one response (SpecChat)

Attempts  == 1..MaxAttempts
MsgIds    == 1..MaxMsgs
Durations == 1..MaxDur
NULL == 0

\* ConnectionState (src/types.ts)
DISCONNECTED == "disconnected"
CONNECTING   == "connecting"
CONNECTED    == "connected"
ERROR        == "error"
ConnectionState == {DISCONNECTED, CONNECTING, CONNECTED, ERROR}

\* the two fixed messages of onerror and of the catch block
MsgConnection == "Connection error occurred."
MsgSetup      == "Failed to access microphone or connect to API."

\* every resource a connect attempt acquires
Kinds == {"inputCtx", "outputCtx", "stream", "source", "processor"}
Res   == Attempts \X Kinds

VARIABLES
  connectionState,          \* useState<ConnectionState>
  errorMsg,                 \* useState<string | null>, "null" for null
  mounted,                  \* the component is mounted
  inputAudioContextRef,     \* refs: NULL or the attempt that created the object
  outputAudioContextRef,
  streamRef,
  processorRef,
  sourceRef,
  outputAnalyserRef,
  sessionPromiseRef,
  nextStartTimeRef,         \* the playback cursor
  sourcesRef,               \* the live handle set (ids of buffer sources)
  handles,                  \* every buffer source ever started
  acq,                      \* resources acquired so far
  rel,                      \* release calls (stop / disconnect / close) per resource
  now,                      \* currentTime of each attempt's output context
  att,                      \* position of each connect attempt and its session
  nAtt,                     \* connect attempts started
  decoding,                 \* onmessage handlers suspended at await decodeAudioData
  nMsg,                     \* audio messages delivered so far
  resetAt,                  \* nMsg when the cursor was last reset to 0 (history)
  gone,                     \* where each attempt was at the user's disconnect (history)
  flushedTo,                \* audio messages arrived before the last handled interrupt
  last,                     \* the handler that ran last (history)
  sent,                     \* frames passed to sendRealtimeInput, per session
  \* ChatMode (src/components/ChatMode.tsx)
  input,                    \* useState(''): TRUE when the text box holds text
  isLoading,                \* useState(false)
  messages,                 \* session.messages, as the parent holds them
  inflight,                 \* handleSend invocations between fetch and finally
  nReq                      \* handleSend invocations so far

liveVars == <<connectionState, errorMsg, mounted, inputAudioContextRef,
              outputAudioContextRef, streamRef, processorRef, sourceRef,
              outputAnalyserRef, sessionPromiseRef, nextStartTimeRef, sourcesRef,
              handles, acq, rel, now, att, nAtt, decoding, nMsg, resetAt, gone,
              flushedTo, last, sent>>

chatVars == <<input, isLoading, messages, inflight, nReq>>

vars == <<liveVars, chatVars>>

\* ------------------------------------------------------------------ helpers
Max(a, b) == IF a >= b THEN a ELSE b

\* release counts are kept up to 2: 2 stands for "more than once"
Bump(n) == IF n >= 2 THEN 2 ELSE n + 1

Release(r, k, kind) == [r EXCEPT ![<<k, kind>>] = Bump(@)]

IsLive(k, kind) == <<k, kind>> \in acq /\ rel[<<k, kind>>] = 0

\* source.stop() on every member of S (the try/catch swallows a fault)
StopAll(hs, S) ==
  [h \in DOMAIN hs |-> IF h \in S THEN [hs[h] EXCEPT !.stops = Bump(@)] ELSE hs[h]]

\* the part of the state cleanupAudio and the playback queue work on
Dev ==
  [sourcesRef            |-> sourcesRef,
   handles               |-> handles,
   streamRef             |-> streamRef,
   processorRef          |-> processorRef,
   sourceRef             |-> sourceRef,
   inputAudioContextRef  |-> inputAudioContextRef,
   outputAudioContextRef |-> outputAudioContextRef,
   rel                   |-> rel,
   nextStartTimeRef      |-> nextStartTimeRef]

SetDev(d) ==
  /\ sourcesRef' = d.sourcesRef
  /\ handles' = d.handles
  /\ streamRef' = d.streamRef
  /\ processorRef' = d.processorRef
  /\ sourceRef' = d.sourceRef
  /\ inputAudioContextRef' = d.inputAudioContextRef
  /\ outputAudioContextRef' = d.outputAudioContextRef
  /\ rel' = d.rel
  /\ nextStartTimeRef' = d.nextStartTimeRef

\* cleanupAudio without streamRef.current = null (line 42 dropped)
cleanupAudioKeepsStreamRef(d) ==
  LET r1 == IF d.streamRef # NULL
              THEN Release(d.rel, d.streamRef, "stream") ELSE d.rel
      r2 == IF d.processorRef # NULL
              THEN Release(r1, d.processorRef, "processor") ELSE r1
      r3 == IF d.sourceRef # NULL
              THEN Release(r2, d.sourceRef, "source") ELSE r2
      r4 == IF d.inputAudioContextRef # NULL
              THEN Release(r3, d.inputAudioContextRef, "inputCtx") ELSE r3
      r5 == IF d.outputAudioContextRef # NULL
              THEN Release(r4, d.outputAudioContextRef, "outputCtx") ELSE r4
  IN [sourcesRef            |-> {},
      handles               |-> StopAll(d.handles, d.sourcesRef),
      streamRef             |-> d.streamRef,
      processorRef          |-> NULL,
      sourceRef             |-> NULL,
      inputAudioContextRef  |-> NULL,
      outputAudioContextRef |-> NULL,
      rel                   |-> r5,
      nextStartTimeRef      |-> 0]

\* cleanupAudio, LiveMode.tsx 32-66
cleanupAudio(d) ==
  LET r1 == IF d.streamRef # NULL
              THEN Release(d.rel, d.streamRef, "stream") ELSE d.rel
      r2 == IF d.processorRef # NULL
              THEN Release(r1, d.processorRef, "processor") ELSE r1
      r3 == IF d.sourceRef # NULL
              THEN Release(r2, d.sourceRef, "source") ELSE r2
      r4 == IF d.inputAudioContextRef # NULL
              THEN Release(r3, d.inputAudioContextRef, "inputCtx") ELSE r3
      r5 == IF d.outputAudioContextRef # NULL
              THEN Release(r4, d.outputAudioContextRef, "outputCtx") ELSE r4
  IN [sourcesRef            |-> {},
      handles               |-> StopAll(d.handles, d.sourcesRef),
      streamRef             |-> NULL,
      processorRef          |-> NULL,
      sourceRef             |-> NULL,
      inputAudioContextRef  |-> NULL,
      outputAudioContextRef |-> NULL,
      rel                   |-> r5,
      nextStartTimeRef      |-> 0]

\* the interrupted branch without nextStartTimeRef.current = 0 (line 176 dropped)
onInterruptedKeepsCursor(d) ==
  [d EXCEPT !.handles = StopAll(d.handles, d.sourcesRef),
            !.sourcesRef = {}]

\* the interrupted branch without sourcesRef.current.clear() (line 175 dropped)
onInterruptedStopsOnly(d) ==
  [d EXCEPT !.handles = StopAll(d.handles, d.sourcesRef),
            !.nextStartTimeRef = 0]

\* the interrupted branch of onmessage, LiveMode.tsx 171-177
onInterrupted(d) ==
  [d EXCEPT !.handles = StopAll(d.handles, d.sourcesRef),
            !.sourcesRef = {},
            !.nextStartTimeRef = 0]

\* setConnectionState / setErrorMsg: React drops updates of an unmounted component
setConnectionState(s) == connectionState' = IF mounted THEN s ELSE connectionState
setErrorMsg(m)        == errorMsg' = IF mounted THEN m ELSE errorMsg

\* history: the handler that ran; for a user disconnect the position of every
\* attempt that was under way when it ran (kept from the first such disconnect);
\* for a handled interrupted message the number of audio messages that had
\* arrived before it (the message's own chunk included)
Did(op) ==
  /\ last' = op
  /\ flushedTo' =
        IF op = "interrupted" THEN nMsg
        ELSE IF op = "scheduledInterrupted"
          THEN Max(flushedTo, CHOOSE h \in DOMAIN handles' : h \notin DOMAIN handles)
        ELSE flushedTo
  /\ gone' = IF op = "disconnect"
              THEN [k \in Attempts |->
                      IF gone[k] = "no" /\ att[k] \in {"gum", "opening", "open"}
                        THEN att[k] ELSE gone[k]]
              ELSE gone

\* history: the cursor was reset (interrupt or cleanup) after nMsg audio messages
Flushed == resetAt' = nMsg

\* ------------------------------------------------------------------ initial state
Init ==
  /\ connectionState = DISCONNECTED
  /\ errorMsg = "null"
  /\ mounted = TRUE
  /\ inputAudioContextRef = NULL
  /\ outputAudioContextRef = NULL
  /\ streamRef = NULL
  /\ processorRef = NULL
  /\ sourceRef = NULL
  /\ outputAnalyserRef = NULL
  /\ sessionPromiseRef = NULL
  /\ nextStartTimeRef = 0
  /\ sourcesRef = {}
  /\ handles = <<>>
  /\ acq = {}
  /\ rel = [r \in Res |-> 0]
  /\ now = [k \in Attempts |-> 0]
  /\ att = [k \in Attempts |-> "idle"]
  /\ nAtt = 0
  /\ decoding = {}
  /\ nMsg = 0
  /\ resetAt = 0
  /\ gone = [k \in Attempts |-> "no"]
  /\ flushedTo = 0
  /\ last = "init"
  /\ sent = [k \in Attempts |-> 0]
  /\ input = FALSE
  /\ isLoading = FALSE
  /\ messages = <<>>
  /\ inflight = {}
  /\ nReq = 0

\* ------------------------------------------------------------------ connectToLive
\* The control button (LiveMode.tsx 257) calls connectToLive in every state but
\* CONNECTED.  The synchronous part up to await getUserMedia, 68-88.
ConnectRequest(maxAttempts) ==
  /\ mounted
  /\ connectionState # CONNECTED
  /\ nAtt < maxAttempts
  /\ LET k == nAtt + 1 IN
       /\ nAtt' = k
       /\ connectionState' = CONNECTING
       /\ errorMsg' = "null"
       /\ acq' = acq \cup {<<k, "inputCtx">>, <<k, "outputCtx">>}
       /\ inputAudioContextRef' = k
       /\ outputAudioContextRef' = k
       /\ outputAnalyserRef' = k
       /\ att' = [att EXCEPT ![k] = "gum"]
       /\ Did("connect")
  /\ UNCHANGED <<mounted, streamRef, processorRef, sourceRef, sessionPromiseRef,
                 nextStartTimeRef, sourcesRef, handles, rel, now, decoding, nMsg,
                 resetAt>>
  /\ UNCHANGED <<sent, chatVars>>

\* the catch block, 194-199
CatchSetup ==
  /\ setConnectionState(ERROR)
  /\ setErrorMsg(MsgSetup)
  /\ Flushed
  /\ SetDev(cleanupAudio(Dev))

\* getUserMedia resolves, 88-192: the stream is stored, the client is built and
\* ai.live.connect is called; its promise is stored, not awaited.
GumResolves(k) ==
  /\ att[k] = "gum"
  /\ acq' = acq \cup {<<k, "stream">>}
  /\ streamRef' = k
  /\ sessionPromiseRef' = k
  /\ att' = [att EXCEPT ![k] = "opening"]
  /\ Did("gumOk")
  /\ UNCHANGED <<connectionState, errorMsg, mounted, inputAudioContextRef,
                 outputAudioContextRef, processorRef, sourceRef, outputAnalyserRef,
                 nextStartTimeRef, sourcesRef, handles, rel, now, nAtt, decoding,
                 nMsg, resetAt>>
  /\ UNCHANGED <<sent, chatVars>>

\* getUserMedia rejects (permission denied, no device): the catch block runs
GumRejects(k) ==
  /\ att[k] = "gum"
  /\ CatchSetup
  /\ att' = [att EXCEPT ![k] = "gumFailed"]
  /\ Did("gumFail")
  /\ UNCHANGED <<mounted, outputAnalyserRef, sessionPromiseRef, acq, now, nAtt,
                 decoding, nMsg>>
  /\ UNCHANGED <<sent, chatVars>>

\* getUserMedia resolves and new GoogleGenAI({ apiKey }) throws (line 92): the
\* stream is already stored when the catch block runs
ClientThrows(k) ==
  /\ att[k] = "gum"
  /\ acq' = acq \cup {<<k, "stream">>}
  /\ setConnectionState(ERROR)
  /\ setErrorMsg(MsgSetup)
  /\ Flushed
  /\ SetDev(cleanupAudio([Dev EXCEPT !.streamRef = k]))
  /\ att' = [att EXCEPT ![k] = "setupFailed"]
  /\ Did("clientThrows")
  /\ UNCHANGED <<mounted, outputAnalyserRef, sessionPromiseRef, now, nAtt,
                 decoding, nMsg>>
  /\ UNCHANGED <<sent, chatVars>>

\* the promise of ai.live.connect rejects: nothing awaits or catches it (95, 192)
ConnectPromiseRejects(k) ==
  /\ att[k] = "opening"
  /\ att' = [att EXCEPT ![k] = "rejected"]
  /\ Did("openRejected")
  /\ UNCHANGED <<connectionState, errorMsg, mounted, inputAudioContextRef,
                 outputAudioContextRef, streamRef, processorRef, sourceRef,
                 outputAnalyserRef, sessionPromiseRef, nextStartTimeRef, sourcesRef,
                 handles, acq, rel, now, nAtt, decoding, nMsg, resetAt>>
  /\ UNCHANGED <<sent, chatVars>>

\* ------------------------------------------------------------------ session callbacks
\* onopen, 105-133.  The closure holds the attempt's own inputCtx and stream.
\* createMediaStreamSource on a context that was closed meanwhile throws in some
\* browsers and succeeds in others: both outcomes are possible.
onopen(k, throws) ==
  /\ att[k] = "opening"
  /\ throws => ~IsLive(k, "inputCtx")
  /\ att' = [att EXCEPT ![k] = "open"]
  /\ setConnectionState(CONNECTED)
  /\ IF throws
       THEN UNCHANGED <<acq, sourceRef, processorRef>>
       ELSE /\ acq' = acq \cup {<<k, "source">>, <<k, "processor">>}
            /\ sourceRef' = k
            /\ processorRef' = k
  /\ Did("onopen")
  /\ UNCHANGED <<errorMsg, mounted, inputAudioContextRef, outputAudioContextRef,
                 streamRef, outputAnalyserRef, sessionPromiseRef, nextStartTimeRef,
                 sourcesRef, handles, rel, now, nAtt, decoding, nMsg, resetAt>>
  /\ UNCHANGED <<sent, chatVars>>

\* processor.onaudioprocess, 112-126: the script processor fires while it is
\* connected and its context is running; the frame is passed to the attempt's own
\* session through sessionPromise.then, in the order of the calls
onaudioprocess(k, maxFrames) ==
  /\ IsLive(k, "processor")
  /\ IsLive(k, "inputCtx")
  /\ sent[k] < maxFrames
  /\ sent' = [sent EXCEPT ![k] = @ + 1]
  /\ Did("frame")
  /\ UNCHANGED <<connectionState, errorMsg, mounted, inputAudioContextRef,
                 outputAudioContextRef, streamRef, processorRef, sourceRef,
                 outputAnalyserRef, sessionPromiseRef, nextStartTimeRef, sourcesRef,
                 handles, acq, rel, now, att, nAtt, decoding, nMsg, resetAt>>
  /\ UNCHANGED chatVars

\* line 142 without Math.max: nextStartTime = ctx.currentTime
syncCursorToClock(d, t) == [d EXCEPT !.nextStartTimeRef = t]

\* line 142: nextStartTime = max(nextStartTime, ctx.currentTime)
syncCursor(d, t) == [d EXCEPT !.nextStartTimeRef = Max(@, t)]

\* lines 151-167: the buffer source is started at the cursor, the cursor advances
\* by the buffer's duration and the source joins the live set.  m is the suspended
\* handler, t the output clock at this moment; since is history.
scheduleChunk(d, m, t, dur, since) ==
  [d EXCEPT !.handles = (m.id :> [ctx   |-> m.ctx,
                                  start |-> d.nextStartTimeRef,
                                  at    |-> t,
                                  dur   |-> dur,
                                  stops |-> 0,
                                  ended |-> FALSE,
                                  since |-> since]) @@ @,
            !.nextStartTimeRef = @ + dur,
            !.sourcesRef = @ \cup {m.id}]

\* onmessage with audio while an output context is referenced, 134-149: the
\* cursor is synchronised and the handler suspends at await decodeAudioData.
onmessageAudio(k, intr, maxMsgs) ==
  /\ att[k] = "open"
  /\ outputAudioContextRef # NULL
  /\ nMsg < maxMsgs
  /\ nMsg' = nMsg + 1
  /\ SetDev(syncCursor(Dev, now[outputAudioContextRef]))
  /\ decoding' = decoding \cup
        {[id |-> nMsg + 1, k |-> k, ctx |-> outputAudioContextRef, intr |-> intr]}
  /\ Did("audio")
  /\ UNCHANGED <<connectionState, errorMsg, mounted, outputAnalyserRef,
                 sessionPromiseRef, acq, now, att, nAtt, resetAt>>
  /\ UNCHANGED <<sent, chatVars>>

\* onmessage whose audio branch is skipped (no audio, or no output context) and
\* whose interrupted flag is set, 170-177
onmessageInterrupted(k) ==
  /\ att[k] = "open"
  /\ SetDev(onInterrupted(Dev))
  /\ Flushed
  /\ Did("interrupted")
  /\ UNCHANGED <<connectionState, errorMsg, mounted, outputAnalyserRef,
                 sessionPromiseRef, acq, now, att, nAtt, decoding, nMsg>>
  /\ UNCHANGED <<sent, chatVars>>

\* decode / decodeAudioData (utils/audioUtils): asynchronous.  A pending decode
\* settles at any later turn of the event loop, whatever other decodes are
\* pending, with a buffer of some duration or with a failure.
Settles(m) == m \in decoding

\* onmessage with the interrupted branch (171-177) placed before the audio branch
decodeResolvesInterruptFirst(m, dur) ==
  /\ Settles(m)
  /\ decoding' = decoding \ {m}
  /\ IF outputAnalyserRef # m.ctx
       THEN /\ SetDev(Dev)
            /\ UNCHANGED resetAt
            /\ Did("connectThrows")
       ELSE LET d1 == IF m.intr THEN onInterrupted(Dev) ELSE Dev
                d2 == scheduleChunk(d1, m, now[m.ctx], dur, resetAt)
            IN /\ SetDev(d2)
               /\ IF m.intr THEN Flushed ELSE UNCHANGED resetAt
               /\ Did(IF m.intr THEN "scheduledInterrupted" ELSE "scheduled")
  /\ UNCHANGED <<connectionState, errorMsg, mounted, outputAnalyserRef,
                 sessionPromiseRef, acq, now, att, nAtt, nMsg>>
  /\ UNCHANGED <<sent, chatVars>>

\* decodeAudioData resolves, 151-177.  source.connect(analyser) throws when the
\* analyser belongs to another context than ctx (a newer attempt replaced it):
\* the handler then ends there.
decodeResolves(m, dur) ==
  /\ Settles(m)
  /\ decoding' = decoding \ {m}
  /\ IF outputAnalyserRef # m.ctx
       THEN /\ SetDev(Dev)
            /\ UNCHANGED resetAt
            /\ Did("connectThrows")
       ELSE LET d1 == scheduleChunk(Dev, m, now[m.ctx], dur, resetAt)
                d2 == IF m.intr THEN onInterrupted(d1) ELSE d1
            IN /\ SetDev(d2)
               /\ IF m.intr THEN Flushed ELSE UNCHANGED resetAt
               /\ Did(IF m.intr THEN "scheduledInterrupted" ELSE "scheduled")
  /\ UNCHANGED <<connectionState, errorMsg, mounted, outputAnalyserRef,
                 sessionPromiseRef, acq, now, att, nAtt, nMsg>>
  /\ UNCHANGED <<sent, chatVars>>

\* decode / decodeAudioData fails on a malformed payload: the async handler
\* rejects at line 144 and nothing after it runs
decodeRejects(m) ==
  /\ Settles(m)
  /\ decoding' = decoding \ {m}
  /\ Did("decodeFailed")
  /\ UNCHANGED <<connectionState, errorMsg, mounted, inputAudioContextRef,
                 outputAudioContextRef, streamRef, processorRef, sourceRef,
                 outputAnalyserRef, sessionPromiseRef, nextStartTimeRef, sourcesRef,
                 handles, acq, rel, now, att, nAtt, nMsg, resetAt>>
  /\ UNCHANGED <<sent, chatVars>>

\* onclose that reconnects by itself: it sets CONNECTING instead of DISCONNECTED
oncloseReconnects(k) ==
  /\ att[k] \in {"opening", "open", "errored"}
  /\ att' = [att EXCEPT ![k] = "closed"]
  /\ setConnectionState(CONNECTING)
  /\ Flushed
  /\ SetDev(cleanupAudio(Dev))
  /\ Did("onclose")
  /\ UNCHANGED <<errorMsg, mounted, outputAnalyserRef, sessionPromiseRef, acq, now,
                 nAtt, decoding, nMsg>>
  /\ UNCHANGED <<sent, chatVars>>

\* onclose, 179-182
onclose(k) ==
  /\ att[k] \in {"opening", "open", "errored"}
  /\ att' = [att EXCEPT ![k] = "closed"]
  /\ setConnectionState(DISCONNECTED)
  /\ Flushed
  /\ SetDev(cleanupAudio(Dev))
  /\ Did("onclose")
  /\ UNCHANGED <<errorMsg, mounted, outputAnalyserRef, sessionPromiseRef, acq, now,
                 nAtt, decoding, nMsg>>
  /\ UNCHANGED <<sent, chatVars>>

\* onerror without setErrorMsg (line 186 dropped)
onerrorSilent(k) ==
  /\ att[k] \in {"opening", "open"}
  /\ att' = [att EXCEPT ![k] = "errored"]
  /\ setConnectionState(ERROR)
  /\ Flushed
  /\ SetDev(cleanupAudio(Dev))
  /\ Did("onerror")
  /\ UNCHANGED <<errorMsg, mounted, outputAnalyserRef, sessionPromiseRef, acq, now,
                 nAtt, decoding, nMsg>>
  /\ UNCHANGED <<sent, chatVars>>

\* onerror, 183-188
onerror(k) ==
  /\ att[k] \in {"opening", "open"}
  /\ att' = [att EXCEPT ![k] = "errored"]
  /\ setConnectionState(ERROR)
  /\ setErrorMsg(MsgConnection)
  /\ Flushed
  /\ SetDev(cleanupAudio(Dev))
  /\ Did("onerror")
  /\ UNCHANGED <<mounted, outputAnalyserRef, sessionPromiseRef, acq, now, nAtt,
                 decoding, nMsg>>
  /\ UNCHANGED <<sent, chatVars>>

\* ------------------------------------------------------------------ user and view
\* disconnectFromLive, 202-214: the button calls it only while CONNECTED; the
\* session itself is not closed
disconnectFromLive ==
  /\ mounted
  /\ connectionState = CONNECTED
  /\ Flushed
  /\ SetDev(cleanupAudio(Dev))
  /\ connectionState' = DISCONNECTED
  /\ Did("disconnect")
  /\ UNCHANGED <<errorMsg, mounted, outputAnalyserRef, sessionPromiseRef, acq, now,
                 att, nAtt, decoding, nMsg>>
  /\ UNCHANGED <<sent, chatVars>>

\* the effect's cleanup on unmount, 216-220
Unmount ==
  /\ mounted
  /\ mounted' = FALSE
  /\ Flushed
  /\ SetDev(cleanupAudio(Dev))
  /\ Did("unmount")
  /\ UNCHANGED <<connectionState, errorMsg, outputAnalyserRef, sessionPromiseRef,
                 acq, now, att, nAtt, decoding, nMsg>>
  /\ UNCHANGED <<sent, chatVars>>

\* ------------------------------------------------------------------ output device
\* the clock of an open output context advances (followed only while something
\* can read it: the referenced context, a suspended handler, an unfinished source)
Tick(k, maxClock) ==
  /\ IsLive(k, "outputCtx")
  /\ \/ outputAudioContextRef = k
     \/ \E m \in decoding : m.ctx = k
     \/ \E h \in DOMAIN handles : handles[h].ctx = k /\ ~handles[h].ended
  /\ now[k] < maxClock
  /\ now' = [now EXCEPT ![k] = @ + 1]
  /\ Did("tick")
  /\ UNCHANGED <<connectionState, errorMsg, mounted, inputAudioContextRef,
                 outputAudioContextRef, streamRef, processorRef, sourceRef,
                 outputAnalyserRef, sessionPromiseRef, nextStartTimeRef, sourcesRef,
                 handles, acq, rel, att, nAtt, decoding, nMsg, resetAt>>
  /\ UNCHANGED <<sent, chatVars>>

\* a buffer source plays from max(start, clock when started) for its duration
PlayFrom(h) == Max(handles[h].start, handles[h].at)
PlayEnd(h)  == PlayFrom(h) + handles[h].dur

\* the clock of an open output context keeps running past the explored idle time
\* while a started source on it has not played out
PlayOut(k, maxClock) ==
  /\ IsLive(k, "outputCtx")
  /\ now[k] >= maxClock
  /\ \E h \in DOMAIN handles :
       /\ handles[h].ctx = k
       /\ ~handles[h].ended
       /\ handles[h].stops = 0
       /\ now[k] < PlayEnd(h)
  /\ now' = [now EXCEPT ![k] = @ + 1]
  /\ Did("tick")
  /\ UNCHANGED <<connectionState, errorMsg, mounted, inputAudioContextRef,
                 outputAudioContextRef, streamRef, processorRef, sourceRef,
                 outputAnalyserRef, sessionPromiseRef, nextStartTimeRef, sourcesRef,
                 handles, acq, rel, att, nAtt, decoding, nMsg, resetAt>>
  /\ UNCHANGED <<sent, chatVars>>

\* an 'ended' listener that leaves the source in the set (line 162 dropped)
endedKeepsSource(h) ==
  /\ h \in DOMAIN handles
  /\ ~handles[h].ended
  /\ handles[h].stops > 0 \/ now[handles[h].ctx] >= PlayEnd(h)
  /\ handles' = [handles EXCEPT ![h].ended = TRUE]
  /\ Did("ended")
  /\ UNCHANGED <<connectionState, errorMsg, mounted, inputAudioContextRef,
                 outputAudioContextRef, streamRef, processorRef, sourceRef,
                 outputAnalyserRef, sessionPromiseRef, nextStartTimeRef, sourcesRef,
                 acq, rel, now, att, nAtt, decoding, nMsg, resetAt>>
  /\ UNCHANGED <<sent, chatVars>>

\* the 'ended' listener, 161-163: fired once the buffer has played out or the
\* source was stopped
ended(h) ==
  /\ h \in DOMAIN handles
  /\ ~handles[h].ended
  /\ handles[h].stops > 0 \/ now[handles[h].ctx] >= PlayEnd(h)
  /\ handles' = [handles EXCEPT ![h].ended = TRUE]
  /\ sourcesRef' = sourcesRef \ {h}
  /\ Did("ended")
  /\ UNCHANGED <<connectionState, errorMsg, mounted, inputAudioContextRef,
                 outputAudioContextRef, streamRef, processorRef, sourceRef,
                 outputAnalyserRef, sessionPromiseRef, nextStartTimeRef, acq, rel,
                 now, att, nAtt, decoding, nMsg, resetAt>>
  /\ UNCHANGED <<sent, chatVars>>

\* ------------------------------------------------------------------ specification
Next ==
  \/ ConnectRequest(MaxAttempts)
  \/ \E k \in Attempts : GumResolves(k)
  \/ \E k \in Attempts : GumRejects(k)
  \/ \E k \in Attempts : ClientThrows(k)
  \/ \E k \in Attempts : ConnectPromiseRejects(k)
  \/ \E k \in Attempts, throws \in BOOLEAN : onopen(k, throws)
  \/ \E k \in Attempts, intr \in BOOLEAN : onmessageAudio(k, intr, LifeMsgs)
  \/ \E k \in Attempts : onmessageInterrupted(k)
  \/ \E m \in decoding, dur \in Durations : decodeResolves(m, dur)
  \/ \E m \in decoding : decodeRejects(m)
  \/ \E k \in Attempts : onclose(k)
  \/ \E k \in Attempts : onerror(k)
  \/ disconnectFromLive
  \/ Unmount
  \/ \E k \in Attempts : Tick(k, LifeClock)
  \/ \E h \in MsgIds : ended(h)
  \/ \E k \in Attempts : onaudioprocess(k, LifeFrames)

Spec == Init /\ [][Next]_vars

NextPlay ==
  \/ ConnectRequest(PlayAttempts)
  \/ \E k \in Attempts : GumResolves(k)
  \/ \E k \in Attempts : GumRejects(k)
  \/ \E k \in Attempts : ClientThrows(k)
  \/ \E k \in Attempts : ConnectPromiseRejects(k)
  \/ \E k \in Attempts, throws \in BOOLEAN : onopen(k, throws)
  \/ \E k \in Attempts, intr \in BOOLEAN : onmessageAudio(k, intr, MaxMsgs)
  \/ \E k \in Attempts : onmessageInterrupted(k)
  \/ \E m \in decoding, dur \in Durations : decodeResolves(m, dur)
  \/ \E m \in decoding : decodeRejects(m)
  \/ \E k \in Attempts : onclose(k)
  \/ \E k \in Attempts : onerror(k)
  \/ disconnectFromLive
  \/ Unmount
  \/ \E k \in Attempts : Tick(k, MaxClock)
  \/ \E h \in MsgIds : ended(h)

SpecPlay == Init /\ [][NextPlay]_vars

\* one attempt and little audio, with an output device that keeps its clock
\* running and delivers 'ended' for every source that played out or was stopped
NextFair ==
  \/ ConnectRequest(PlayAttempts)
  \/ \E k \in Attempts : GumResolves(k)
  \/ \E k \in Attempts : GumRejects(k)
  \/ \E k \in Attempts : ClientThrows(k)
  \/ \E k \in Attempts : ConnectPromiseRejects(k)
  \/ \E k \in Attempts, throws \in BOOLEAN : onopen(k, throws)
  \/ \E k \in Attempts, intr \in BOOLEAN : onmessageAudio(k, intr, FairMsgs)
  \/ \E k \in Attempts : onmessageInterrupted(k)
  \/ \E m \in decoding, dur \in Durations : decodeResolves(m, dur)
  \/ \E m \in decoding : decodeRejects(m)
  \/ \E k \in Attempts : onclose(k)
  \/ \E k \in Attempts : onerror(k)
  \/ disconnectFromLive
  \/ Unmount
  \/ \E k \in Attempts : Tick(k, FairClock)
  \/ \E k \in Attempts : PlayOut(k, FairClock)
  \/ \E h \in MsgIds : ended(h)

SpecFair ==
  /\ Init
  /\ [][NextFair]_vars
  /\ \A k \in Attempts : WF_vars(Tick(k, FairClock))
  /\ \A k \in Attempts : WF_vars(PlayOut(k, FairClock))
  /\ \A h \in MsgIds : WF_vars(ended(h))

\* ------------------------------------------------------------------ ChatMode
\* session.messages entries: the user's message and the model's message of send r;
\* text counts the streamed updates applied, -1 is the fixed error text
UserMessage(r)     == [role |-> "user", id |-> r, text |-> 0, isLoading |-> FALSE]
ModelMessage(r, t) == [role |-> "model", id |-> r, text |-> t, isLoading |-> t = 0]

\* the user types into the text box (onChange, 223)
typeText ==
  /\ ~input
  /\ input' = TRUE
  /\ UNCHANGED <<isLoading, messages, inflight, nReq>>
  /\ UNCHANGED liveVars

\* handleSend up to the fetch, 27-57: returns at once on empty input; otherwise
\* the two new messages are stored, the box is cleared and isLoading set.
\* updatedMessages is the snapshot every later update of this send starts from.
handleSend ==
  /\ input
  /\ nReq < MaxSends
  /\ LET r == nReq + 1
         updatedMessages == Append(messages, UserMessage(r))
     IN /\ nReq' = r
        /\ messages' = Append(updatedMessages, ModelMessage(r, 0))
        /\ inflight' = inflight \cup
              {[id |-> r, updatedMessages |-> updatedMessages, accumulatedText |-> 0]}
  /\ input' = FALSE
  /\ isLoading' = TRUE
  /\ UNCHANGED liveVars

\* the send button, 231-233: disabled={!input.trim() || isLoading}
clickSend ==
  /\ ~isLoading
  /\ handleSend

\* handleKeyDown for the Enter key, 124-129: without Shift it calls handleSend
handleKeyDown(shiftKey) ==
  /\ ~shiftKey
  /\ handleSend

\* one streamed line of the response, 75-104: the session is replaced by this
\* send's snapshot plus its model message
streamUpdate(q) ==
  /\ q \in inflight
  /\ q.accumulatedText < MaxChunks
  /\ messages' = Append(q.updatedMessages, ModelMessage(q.id, q.accumulatedText + 1))
  /\ inflight' = (inflight \ {q}) \cup {[q EXCEPT !.accumulatedText = @ + 1]}
  /\ UNCHANGED <<input, isLoading, nReq>>
  /\ UNCHANGED liveVars

\* the stream ends (done), then finally, 77 and 118-121
streamDone(q) ==
  /\ q \in inflight
  /\ inflight' = inflight \ {q}
  /\ isLoading' = FALSE
  /\ UNCHANGED <<input, messages, nReq>>
  /\ UNCHANGED liveVars

\* fetch or reader.read throws: the catch block, then finally, 112-121
sendFails(q) ==
  /\ q \in inflight
  /\ messages' = Append(q.updatedMessages, ModelMessage(q.id, -1))
  /\ inflight' = inflight \ {q}
  /\ isLoading' = FALSE
  /\ UNCHANGED <<input, nReq>>
  /\ UNCHANGED liveVars

NextChat ==
  \/ typeText
  \/ clickSend
  \/ \E shiftKey \in BOOLEAN : handleKeyDown(shiftKey)
  \/ \E q \in inflight : streamUpdate(q)
  \/ \E q \in inflight : streamDone(q)
  \/ \E q \in inflight : sendFails(q)

SpecChat == Init /\ [][NextChat]_vars

\* ------------------------------------------------------------------ claims
\* the handlers that end with cleanupAudio having run
CleanupOps == {"gumFail", "clientThrows", "onclose", "onerror", "disconnect", "unmount"}

AllRefsNull(d) ==
  /\ d.streamRef = NULL
  /\ d.processorRef = NULL
  /\ d.sourceRef = NULL
  /\ d.inputAudioContextRef = NULL
  /\ d.outputAudioContextRef = NULL

\* C1: cleanup is idempotent.  From every reachable state, cleanupAudio run twice
\* in a row leaves the state cleanupAudio run once leaves: the second call stops,
\* disconnects and closes nothing (the release counts and the stop counts of the
\* two results are equal), the handle set is empty, nextStartTime is 0 and every
\* device reference is null; and right after a handler that ran cleanupAudio, one
\* more call changes nothing.
C1_CleanupIdempotent ==
  LET once  == cleanupAudio(Dev)
      twice == cleanupAudio(once)
  IN /\ twice = once
     /\ once.sourcesRef = {}
     /\ once.nextStartTimeRef = 0
     /\ AllRefsNull(once)
     /\ last \in CleanupOps => once = Dev

\* a user disconnect whose cleanup stopped a playing source and released the
\* stream, the processor and the output context of attempt 1
C1_Witness ==
  /\ last = "disconnect"
  /\ \E h \in DOMAIN handles : handles[h].stops = 1 /\ ~handles[h].ended
  /\ rel[<<1, "stream">>] = 1
  /\ rel[<<1, "processor">>] = 1
  /\ rel[<<1, "outputCtx">>] = 1

\* the conversation has ended and no connect is pending
Quiescent ==
  /\ connectionState \in {DISCONNECTED, ERROR} \/ ~mounted
  /\ \A k \in Attempts : att[k] \notin {"gum", "opening"}

\* C2: every resource acquired during a connect attempt is released exactly once,
\* whichever trigger ends the attempt and in whatever order the asynchronous
\* steps resolve: once the conversation has ended and no connect is pending,
\* every acquired resource has been released, and released once.
C2_ReleasedExactlyOnce ==
  Quiescent => \A r \in acq : rel[r] = 1

InterruptOps == {"interrupted", "scheduledInterrupted"}

\* C3: barge-in flush.  Right after the interrupted branch of onmessage has run,
\* the live handle set is empty and nextStartTime is 0, and every handle that was
\* in the set (the chunk of the same message included) has been stopped.
C3_BargeInFlush ==
  [][last' \in InterruptOps =>
       /\ sourcesRef' = {}
       /\ nextStartTimeRef' = 0
       /\ \A h \in sourcesRef : handles'[h].stops > 0
       /\ \A h \in DOMAIN handles' \ DOMAIN handles : handles'[h].stops > 0]_vars

\* an interrupted message handled while two sources were pending: both stopped
C3_Witness ==
  /\ last = "interrupted"
  /\ sourcesRef = {}
  /\ Cardinality({h \in DOMAIN handles :
                    handles[h].stops = 1 /\ ~handles[h].ended}) = 2

\* a was delivered before b and the cursor was not reset between the arrival of
\* a and the scheduling of either
Uninterrupted(a, b) ==
  /\ a \in DOMAIN handles
  /\ b \in DOMAIN handles
  /\ a < b
  /\ handles[a].since < a
  /\ handles[b].since < a

\* C4: gapless scheduling.  For chunks delivered with no interruption in between
\* the start times are non-decreasing in chunk order, and a chunk scheduled while
\* the cursor is ahead of the output clock starts exactly at the previous chunk's
\* start plus the previous chunk's duration.
C4_GaplessInChunkOrder ==
  \A a, b \in MsgIds :
    Uninterrupted(a, b) =>
      /\ handles[a].start <= handles[b].start
      /\ (b = a + 1 /\ handles[b].start > handles[b].at) =>
            handles[b].start = handles[a].start + handles[a].dur

\* C5: no start in the past.  The start time passed to source.start is
\* max(nextStartTime, output clock) at the moment of scheduling, so it is never
\* smaller than the output clock at that moment.
C5_NoStartInPast ==
  \A h \in DOMAIN handles :
    /\ handles[h].start = Max(handles[h].start, handles[h].at)
    /\ handles[h].start >= handles[h].at

\* C6: the connection state becomes Connected only in response to the transport's
\* open confirmation, and at that moment the microphone stream of the same
\* attempt has been acquired and not yet released.
C6_ConnectedOnlyOnOpenWithMic ==
  [][(connectionState' = CONNECTED /\ connectionState # CONNECTED) =>
       \E k \in Attempts :
         /\ att[k] = "opening"
         /\ att'[k] = "open"
         /\ <<k, "stream">> \in acq'
         /\ rel'[<<k, "stream">>] = 0]_vars

SpecifiedTransitions ==
  {<<DISCONNECTED, CONNECTING>>, <<CONNECTING, CONNECTED>>, <<CONNECTING, ERROR>>,
   <<CONNECTING, DISCONNECTED>>, <<CONNECTED, DISCONNECTED>>, <<CONNECTED, ERROR>>,
   <<ERROR, CONNECTING>>}

\* C7: every change of the connection state is one of the specified transitions;
\* Disconnected->Connected, Disconnected->Error, Error->Disconnected and
\* Error->Connected never occur.
C7_OnlySpecifiedTransitions ==
  [][connectionState' # connectionState =>
       <<connectionState, connectionState'>> \in SpecifiedTransitions]_vars

\* C8: the state Connecting is set exclusively by a connect request (from Error
\* too), never by a transport callback, cleanup or disconnect.
C8_ConnectingOnlyByConnect ==
  [][(connectionState' = CONNECTING /\ connectionState # CONNECTING) =>
       /\ last' = "connect"
       /\ nAtt' = nAtt + 1]_vars

\* a connect request issued in Error (after getUserMedia of attempt 1 failed)
\* re-entered Connecting
C8_Witness ==
  /\ connectionState = CONNECTING
  /\ last = "connect"
  /\ att[1] = "gumFailed"
  /\ att[2] = "gum"

FailureOps == {"gumFail", "openRejected", "onerror"}

\* C9: device-acquisition failure, transport-open failure and transport runtime
\* error each move the state to Error and run full cleanup (afterwards every
\* device reference is null, the handle set is empty and nextStartTime is 0); a
\* later connect request is accepted.
C9_FailuresEndInErrorAndCleanup ==
  (mounted /\ last \in FailureOps) =>
    /\ connectionState = ERROR
    /\ AllRefsNull(Dev)
    /\ sourcesRef = {}
    /\ nextStartTimeRef = 0
    /\ nAtt < MaxAttempts => ENABLED ConnectRequest(MaxAttempts)

\* C10: a decode failure on one chunk drops only that chunk: the connection state
\* and the resources are untouched (no cleanup runs), and an interrupted flag
\* carried by the same message is still honoured (the handle set is flushed and
\* nextStartTime reset when the handler ends).
C10_DecodeFailureDropsOnlyChunk ==
  [][\A m \in decoding :
       (m \notin decoding' /\ last' = "decodeFailed") =>
          /\ connectionState' = connectionState
          /\ rel' = rel
          /\ m.intr => (sourcesRef' = {} /\ nextStartTimeRef' = 0)]_vars

\* no connect attempt is waiting for getUserMedia or for the open confirmation
\* and no onmessage handler is suspended
NothingPending ==
  /\ \A j \in Attempts : att[j] \notin {"gum", "opening"}
  /\ decoding = {}

\* C11: connect followed by a user disconnect before the transport has confirmed
\* open: once the late open confirmation has arrived and nothing is pending any
\* more, the state is Disconnected, no microphone track is active, no capture
\* node exists undisconnected and the handle set is empty (the late open
\* confirmation neither set Connected nor rebuilt the capture graph).
C11_DisconnectBeforeOpen ==
  \A k \in Attempts :
    (mounted /\ gone[k] \in {"gum", "opening"} /\ att[k] = "open"
       /\ last = "onopen" /\ NothingPending) =>
      /\ connectionState = DISCONNECTED
      /\ \A j \in Attempts : ~IsLive(j, "stream")
      /\ \A j \in Attempts : ~IsLive(j, "source") /\ ~IsLive(j, "processor")
      /\ sourcesRef = {}

\* cleanupAudio has run since connect attempt k started: it found the input
\* context of attempt k, or of a later attempt, in inputAudioContextRef
CleanedSince(k) == \E j \in k..nAtt : rel[<<j, "inputCtx">>] > 0

\* C12: a getUserMedia or a session open that resolves after cleanup has run
\* (unmount, or the attempt was cancelled meanwhile) is discarded: the stream is
\* not stored and left running, no session is opened on it, and no source or
\* processor node is created on the closed input context.
C12_LateResultsDiscarded ==
  [][\A k \in Attempts :
       /\ (att[k] = "gum" /\ att'[k] # "gum" /\ CleanedSince(k)) =>
             /\ att'[k] # "opening"
             /\ streamRef' # k
             /\ ~(<<k, "stream">> \in acq' /\ rel'[<<k, "stream">>] = 0)
       /\ (att[k] = "opening" /\ att'[k] = "open" /\ CleanedSince(k)) =>
             /\ <<k, "source">> \notin acq'
             /\ <<k, "processor">> \notin acq']_vars

\* the realtime sessions that are open or being opened
LiveSessions == {k \in Attempts : att[k] \in {"opening", "open"}}

\* C13: at every moment at most one realtime session is open or being opened.
C13_SingleSession == Cardinality(LiveSessions) <= 1

\* the triggers C14 names: user disconnect, remote close, runtime error, unmount
TeardownOps == {"disconnect", "onclose", "onerror", "unmount"}

\* C14: immediately after cleanup returns, whatever the trigger and the state it
\* fired in, every live playback handle has been stopped and the set is empty,
\* every capture track is stopped, the source and processor nodes are
\* disconnected, both audio contexts (of every attempt) are closed and
\* nextStartTime is 0.
C14_CleanupPostcondition ==
  last \in TeardownOps =>
    /\ sourcesRef = {}
    /\ \A h \in DOMAIN handles : handles[h].stops > 0 \/ handles[h].ended
    /\ \A r \in acq : rel[r] > 0
    /\ nextStartTimeRef = 0

\* C15: whenever the state is Error the error message is one of the two fixed
\* strings (never null, never anything else), and right after a connect request
\* the message is null.
C15_ErrorMessageFixed ==
  /\ errorMsg \in {"null", MsgConnection, MsgSetup}
  /\ connectionState = ERROR => errorMsg \in {MsgConnection, MsgSetup}
  /\ last = "connect" => errorMsg = "null"

\* getUserMedia of attempt 1 failed (setup message) and the session of attempt 2
\* then reported an error: the state is Error with the connection message
C15_Witness ==
  /\ att[1] \in {"gumFailed", "setupFailed"}
  /\ last = "onerror"
  /\ connectionState = ERROR
  /\ errorMsg = MsgConnection

\* C16: chunks are placed on the timeline in arrival order: for two chunks a, b
\* of one session (one output context), a arriving before b with no reset of the
\* cursor since a arrived, a's start time is not later than b's, whichever
\* decode completed first.
C16_ArrivalOrder ==
  \A a, b \in DOMAIN handles :
    (a < b /\ handles[a].ctx = handles[b].ctx
       /\ handles[a].since < a /\ handles[b].since < a) =>
      handles[a].start <= handles[b].start

\* C17: no double release.  No microphone stream is stopped, no node
\* disconnected and no context closed more than once, and only what was
\* acquired is ever released.
C17_NoDoubleRelease ==
  \A r \in Res : rel[r] <= 1 /\ (rel[r] = 1 => r \in acq)

\* cleanup has run twice on attempt 1 (remote close, then unmount) and a third
\* time from the catch block of attempt 2
C17_Witness ==
  /\ ~mounted
  /\ att[1] = "closed"
  /\ att[2] = "gumFailed"
  /\ \A kind \in Kinds : rel[<<1, kind>>] = 1

\* C18: nextStartTime never decreases except by being reset to 0, which happens
\* only in the interrupted branch or in cleanupAudio; every other step leaves it
\* unchanged or increases it.
C18_CursorMonotonic ==
  [][/\ nextStartTimeRef' < nextStartTimeRef =>
          /\ nextStartTimeRef' = 0
          /\ last' \in InterruptOps \cup CleanupOps
     /\ last' \notin InterruptOps \cup CleanupOps =>
          nextStartTimeRef' >= nextStartTimeRef]_vars

\* after an interruption reset the cursor to 0, chunks were scheduled: the
\* cursor rose again, by the duration of the chunk scheduled last
C18_Witness ==
  /\ last = "scheduled"
  /\ resetAt >= 1
  /\ \E h \in sourcesRef :
       /\ handles[h].since = resetAt
       /\ handles[h].start >= 1
       /\ nextStartTimeRef = handles[h].start + handles[h].dur

\* C19: the live handle set is exactly the set of buffer sources that were
\* started and have neither ended nor been stopped: no finished or stopped
\* source stays in it and no pending source is missing from it.
C19_LiveSetExact ==
  sourcesRef = {h \in DOMAIN handles : ~handles[h].ended /\ handles[h].stops = 0}

\* one source has played out and left the set, another is still in it
C19_Witness ==
  \E a, b \in DOMAIN handles :
    /\ handles[a].ended
    /\ handles[a].stops = 0
    /\ sourcesRef = {b}
    /\ now[handles[b].ctx] < PlayEnd(b)

\* the session of attempt k went through a terminal transition: it reported an
\* error or a close, or the user disconnected while it existed
Destroyed(k) ==
  \/ att[k] \in {"errored", "closed"}
  \/ gone[k] \in {"opening", "open"}

\* this step is a callback of session k (onopen, onclose, onerror, or onmessage
\* up to or from its await)
CallbackOf(k) ==
  \/ att[k] \in {"opening", "open", "errored"} /\ att'[k] # att[k]
  \/ \E m \in (decoding' \ decoding) \cup (decoding \ decoding') : m.k = k

\* C20: a session is destroyed by every terminal transition: afterwards no
\* callback of that session changes the connection state, the handle set,
\* nextStartTime or any device resource.
C20_NoCallbackAfterTerminal ==
  [][\A k \in Attempts :
       (Destroyed(k) /\ CallbackOf(k)) =>
          /\ connectionState' = connectionState
          /\ sourcesRef' = sourcesRef
          /\ nextStartTimeRef' = nextStartTimeRef
          /\ acq' = acq
          /\ rel' = rel]_vars

\* cleanupAudio has run and no connect request has replaced the contexts since
TornDown == inputAudioContextRef = NULL /\ outputAudioContextRef = NULL

\* C21: after cleanup and until the next connect request the live handle set
\* stays empty and nextStartTime stays 0: a chunk arriving then is not scheduled
\* and a chunk whose decode was in flight when cleanup ran is discarded.
C21_QuietAfterCleanup ==
  TornDown => (sourcesRef = {} /\ nextStartTimeRef = 0)

\* C22: an interruption flushes everything that arrived before it: no chunk that
\* arrived before a handled interrupted message is in the live set afterwards,
\* even if its decode was pending when the interrupt was handled.
C22_InterruptFlushesEarlier ==
  \A h \in sourcesRef : h > flushedTo

\* the playback intervals of a and b intersect
Overlap(a, b) == PlayFrom(a) < PlayEnd(b) /\ PlayFrom(b) < PlayEnd(a)

\* C23: no overlap.  No two handles in the live set (sources of one output
\* context) have intersecting playback intervals, an interval beginning at
\* max(scheduled start, clock when started) and lasting the buffer's duration.
C23_NoOverlap ==
  \A a, b \in sourcesRef :
    (a # b /\ handles[a].ctx = handles[b].ctx) => ~Overlap(a, b)

\* C24: races of 'ended' with interrupt and cleanup.  An interrupt or a cleanup
\* stops every member of the set, finished or not, exactly once more and leaves
\* the set empty; an 'ended' event of a handle that is no longer in the set
\* changes neither the set, nor the cursor, the connection state or a resource.
C24_EndedRaces ==
  [][/\ last' \in InterruptOps \cup CleanupOps =>
          /\ sourcesRef' = {}
          /\ \A h \in sourcesRef :
               /\ handles'[h].stops = Bump(handles[h].stops)
               /\ handles'[h].ended = handles[h].ended
     /\ \A h \in DOMAIN handles :
          (handles'[h].ended /\ ~handles[h].ended /\ h \notin sourcesRef) =>
             /\ sourcesRef' = sourcesRef
             /\ nextStartTimeRef' = nextStartTimeRef
             /\ connectionState' = connectionState
             /\ rel' = rel]_vars

\* an interrupt has just stopped a source that had already played out but whose
\* 'ended' event had not been delivered yet
C24_Witness ==
  /\ last \in InterruptOps
  /\ sourcesRef = {}
  /\ \E h \in DOMAIN handles :
       /\ handles[h].stops = 1
       /\ ~handles[h].ended
       /\ IsLive(handles[h].ctx, "outputCtx")
       /\ now[handles[h].ctx] >= PlayEnd(h)

\* C25: every handle that enters the live set eventually leaves it, the output
\* device firing 'ended' for every started buffer of an open context.
C25_HandleEventuallyLeaves ==
  \A h \in MsgIds : (h \in sourcesRef) ~> (h \notin sourcesRef)

CaptureKinds == {"stream", "source", "processor"}

\* C26: cleanup before capture was ever started (no stream, source or processor
\* has been created): right after it no capture resource has been touched, every
\* audio context that was created is closed and nextStartTime is 0.
C26_CleanupBeforeCapture ==
  (last \in CleanupOps /\ \A r \in acq : r[2] \notin CaptureKinds) =>
    /\ \A r \in Res : r[2] \in CaptureKinds => rel[r] = 0
    /\ \A r \in acq : rel[r] = 1
    /\ nextStartTimeRef = 0

\* C27: a captured frame is sent only to a session whose open was confirmed and
\* that has not failed or closed, and never once cleanup has run; sending changes
\* neither the connection state nor a resource.
C27_FramesOnlyWhileOpen ==
  [][\A k \in Attempts :
       sent'[k] # sent[k] =>
          /\ sent'[k] = sent[k] + 1
          /\ att[k] = "open"
          /\ ~CleanedSince(k)
          /\ connectionState' = connectionState
          /\ rel' = rel]_vars

\* the attempts whose resource of this kind is open
Open(kind) == {k \in Attempts : IsLive(k, kind)}

\* C28: at every moment at most one input context, one output context and one
\* microphone stream are open: a connect request issued while a previous
\* attempt's resources are held does not leave them open beside the new ones.
C28_OneOfEach ==
  /\ Cardinality(Open("inputCtx")) <= 1
  /\ Cardinality(Open("outputCtx")) <= 1
  /\ Cardinality(Open("stream")) <= 1

\* C29: a message with both audio and the interrupted flag is handled audio
\* first, interrupt second: when its handler has scheduled the chunk (started at
\* the cursor), the chunk has been stopped, the set is empty and nextStartTime 0.
C29_AudioThenInterrupt ==
  [][\A m \in decoding :
       (m.intr /\ m \notin decoding' /\ m.id \in DOMAIN handles') =>
          /\ last' = "scheduledInterrupted"
          /\ handles'[m.id].start = nextStartTimeRef
          /\ handles'[m.id].stops = 1
          /\ sourcesRef' = {}
          /\ nextStartTimeRef' = 0]_vars

\* the second chunk carried the flag: it was started behind the first (at the
\* cursor the first had advanced) and both were stopped
C29_Witness ==
  /\ last = "scheduledInterrupted"
  /\ sourcesRef = {}
  /\ nextStartTimeRef = 0
  /\ \E a, b \in DOMAIN handles :
       /\ a # b
       /\ handles[a].stops = 1
       /\ handles[b].stops = 1
       /\ ~handles[b].ended
       /\ handles[b].start = handles[a].start + handles[a].dur

\* C30: in text chat at most one request is in flight: while a send is loading
\* no second send starts, from the button or from the Enter key.
C30_OneRequestInFlight == Cardinality(inflight) <= 1

====
